---- MODULE Spec2Model ----
(***************************************************************************)
(* RequestQueue of packages/client-arena/src/base.ts: a list of queued     *)
(* closures, a processing flag, and the drain loop processQueue that every *)
(* add call invokes.  One JavaScript job (the synchronous run of a handler *)
(* up to its next await) is one action.                                    *)
(***************************************************************************)
EXTENDS Integers, Sequences, FiniteSets, TLC

VARIABLES
    queue,       \* this.queue: the queued closures, each named by its operation
    processing,  \* this.processing
    loopPc,      \* position of the processQueue invocation made by each add
    loopReq,     \* the local `request` of each processQueue invocation (0: none)
    timer,       \* delay in ms of the setTimeout each invocation awaits (0: none)
    promise,     \* state of the promise add returned for each operation
    value,       \* value that promise was resolved with (<<>>: none)
    settleCalls, \* number of resolve/reject calls made on that promise
    attempts,    \* number of times the queue invoked each operation
    failures,    \* number of those invocations that failed
    failN,       \* behaviour of each operation: fails its first failN attempts
    executing,   \* operations started and not yet settled
    addPhase,    \* what the drain loop was doing when the operation was added
    log,         \* history: <<event, operation, processQueue invocation>>, in order
    backoffs,    \* history: <<operation, queue length, delay>> of each backoff awaited
    queue2,      \* this.queue of the RequestQueue of a second ClientBase
    processing2, \* this.processing of that instance
    loopPc2,     \* position of the processQueue invocations of that instance
    loopReq2,    \* their local `request`
    executing2,  \* operations of that instance started and not yet settled
    directCalls, \* Arena API calls in flight that were made outside the queue
    processedNotifications, \* ArenaInteractionClient.processedNotifications
    roundPc,     \* position of each handleArenaInteractions invocation
    roundTodo,   \* its replyNotifications not yet handled, the current one first
    replies,     \* history: replyToThread operations submitted for each notification
    interactionTimer, \* minutes of the pending setTimeout of handleInteractionsLoop
    videoQueue,  \* VideoService.queue: the queued urls, each named by its processVideo call
    videoProcessing, \* VideoService.processing
    callUrl,     \* url of each processVideo call ("": not called)
    callPc,      \* position of the checkQueue of each processVideo call
    callResult,  \* what the promise of each processVideo call was resolved with
    inv,         \* the processVideoFromUrl invocations, two for each processVideo call
    videoCache,  \* runtime.cacheManager: what is cached for each url
    tradeInterval, \* AvalancheTradeClient.tradeInterval, in ms
    isTrading,   \* AvalancheTradeClient.isTrading
    tradeStarted, \* startTrading was called
    tradeInFlight, \* checkStateAndTrade calls in flight
    tradeLogging, \* logTradeError calls in flight
    tradeTimers, \* delays in ms of the pending setTimeout calls of scheduleNextTrade
    tradeLog,    \* history: how each finished tradingLoop iteration ended
    activeLoop,  \* ArenaPostClient.activeLoop
    profile,     \* this.client.profile is set
    startPc,     \* position of each ArenaPostClient.start call
    startArg,    \* postImmediately of each start call
    postReading, \* generateNewPostLoop runs awaiting cacheManager.get
    postPosting, \* delays in ms chosen by the runs awaiting generateNewPost
    postTimers,  \* delays in ms of the pending setTimeout calls of generateNewPostLoop
    prepared,    \* the latest prepareTradeAction call: its inputs and what it returned
    execPc,      \* number of the external call executeTrade awaits (0: none)
    execCalls,   \* history: the external calls executeTrade has made
    execResult   \* what executeTrade returned ("none": nothing yet)

\* The RequestQueue of the model, with its histories.
vars1 == <<queue, processing, loopPc, loopReq, timer, promise, value, settleCalls,
           attempts, failures, failN, executing, addPhase, log, backoffs>>
\* The RequestQueue of a second ClientBase.
vars2 == <<queue2, processing2, loopPc2, loopReq2, executing2>>
\* The interaction client.
varsI == <<processedNotifications, roundPc, roundTodo, replies, interactionTimer>>
\* The video service.
varsV == <<videoQueue, videoProcessing, callUrl, callPc, callResult, inv, videoCache>>
\* The trade client.
varsT == <<tradeInterval, isTrading, tradeStarted, tradeInFlight, tradeLogging,
           tradeTimers, tradeLog>>
\* The post client's start.
varsP == <<activeLoop, profile, startPc, startArg, postReading, postPosting, postTimers>>
\* The trade client's prepareTradeAction and executeTrade.
varsA == <<prepared, execPc, execCalls, execResult>>
\* The components that do not use the RequestQueue instances of the model.
outside == <<varsI, varsV, varsT, varsP, varsA>>
\* What the handlers of the first RequestQueue leave alone.
others == <<vars2, directCalls, outside>>
vars == <<vars1, vars2, directCalls, outside>>

\* Number of operations submitted in a run.
MaxOps == 3
\* Operations fail on their first 0..MaxFails attempts, or on every attempt.
MaxFails == 1
\* An operation invoked more than MaxAttempts times never settles.
MaxAttempts == 3
\* Number of operations submitted to each of two instances run side by side.
TwoOps == 2

\* Number of polling rounds of the interaction client in a run.
MaxRounds == 2
\* Number of reply notifications the Arena API knows.
MaxNotifications == 2
\* Number of processVideo calls in a run.
MaxCalls == 2
\* Number of different video urls.
MaxUrls == 1
\* Number of tradingLoop iterations in a run.
MaxIterations == 3

\* Number of ArenaPostClient.start calls in a run.
MaxStarts == 3
\* Largest decision amount, in whole tokens or shares.
MaxAmount == 2
\* Largest wallet balance, in half tokens.
MaxBalance == 2
\* Largest config.MAX_SHARES.
MaxSharesLimit == 2

Ops == 1..MaxOps
\* The plan of an operation that fails on every attempt.
Always == MaxFails + 1
Plans == 0..Always
\* Math.random() in ten-thousandths.
RandomSamples == {0, 5000, 9999}

\* ------------------------------------------------------------------------
\* Pure parts of the code

\* Variant: the early return does not test the processing flag.
ProcessQueueReturns_NoFlag(p, q) == Len(q) = 0

\* Variant: the emptiness test is inverted.
ProcessQueueReturns_Inverted(p, q) == p \/ Len(q) # 0

\* processQueue's early return: if (this.processing || this.queue.length === 0)
ProcessQueueReturns(p, q) == p \/ Len(q) = 0

\* Variant: the loop test is off by one.
LoopCondition_OffByOne(q) == Len(q) > 1

\* while (this.queue.length > 0)
LoopCondition(q) == Len(q) > 0

\* Variant: the flag is not set on entry.
ProcessingOnEntry_Unset == FALSE

\* this.processing = true
ProcessingOnEntry == TRUE

\* Variant: the flag is left set when the loop ends.
ProcessingOnExit_StillSet == TRUE

\* this.processing = false
ProcessingOnExit == FALSE

\* Variant: the head is read and left in the queue.
Shift_Peek(q) == q

\* this.queue.shift(): what is left of the queue
Shift(q) == Tail(q)

\* Variant: the closure is inserted at the head.
Push_Front(q, i) == <<i>> \o q

\* this.queue.push(closure)
Push(q, i) == Append(q, i)

\* this.queue.unshift(request)
Unshift(q, i) == <<i>> \o q

\* The operation's own behaviour on its k-th invocation.
OpOutcome(n, k) == IF n = Always \/ k <= n THEN "fail" ELSE "ok"

\* The result the operation produces on its k-th invocation.
OpResult(i, k) == <<i, k>>

\* The closure add enqueues: resolve(result) on success, reject(error) in its
\* catch.  What it does to the caller's promise.
ClosureSettles(out) == IF out = "ok" THEN "resolved" ELSE "rejected"

\* Variant: the closure's catch rethrows the error.
ClosureResult_Rethrows(out) == IF out = "ok" THEN "fulfilled" ELSE "rejected"

\* The closure's own promise, which processQueue awaits: the closure's
\* try/catch handles the operation's error and rethrows nothing.
ClosureResult(out) == "fulfilled"

\* Math.pow(2, retryCount) * 1000
ExponentialBackoff(retryCount) == (2 ^ retryCount) * 1000

\* Variant: the 1500 ms base is left out.
RandomDelay_NoBase(m) == (m * 2000) \div 10000

\* Math.floor(Math.random() * 2000) + 1500, Math.random() = m / 10000
RandomDelay(m) == ((m * 2000) \div 10000) + 1500

\* Variant: randomDelay is awaited after a successful attempt only.
PacingDelay_SuccessOnly(out, m) == IF out = "ok" THEN RandomDelay(m) ELSE 0

\* await this.randomDelay() follows the try/catch: it is awaited whatever the
\* outcome out of the attempt was.
PacingDelay(out, m) == RandomDelay(m)

\* ------------------------------------------------------------------------
\* Derived state

Submitted == {i \in Ops : promise[i] # "unsubmitted"}
ActiveLoops == {l \in Ops : loopPc[l] \in {"awaitReq", "backoff", "pacing"}}
InQueue(i) == \E k \in 1..Len(queue) : queue[k] = i
\* The drain loop that is active (0: none), and what it is waiting for.
ActiveLoop == IF ActiveLoops = {} THEN 0 ELSE CHOOSE l \in ActiveLoops : TRUE
Phase == IF ActiveLoop = 0 THEN "idle" ELSE loopPc[ActiveLoop]
Quiescent == ActiveLoops = {} /\ queue = <<>>

\* ------------------------------------------------------------------------
\* ArenaInteractionClient of packages/client-arena/src/environment.ts: the
\* timer callback handleInteractionsLoop starts a polling round
\* (handleArenaInteractions) without awaiting it and re-arms the timer.

Rounds == 1..MaxRounds
NotificationIds == 1..MaxNotifications
\* What handling one notification comes to before any reply is submitted:
\* the answer of generateShouldRespond, an empty response text, an error
\* inside handleNotification, or an error of ensureConnection.
Decisions == {"RESPOND", "IGNORE", "STOP", "noText", "throws", "connectionThrows"}

\* The minutes of the next timer, from Math.random() in ten-thousandths.
RandomMinutes(m) == ((m * (5 - 2 + 1)) \div 10000) + 2

\* The ids of a set in the order the API lists them.
RECURSIVE Listed(_)
Listed(S) ==
    IF S = {} THEN <<>>
    ELSE LET n == CHOOSE x \in S : \A y \in S : x <= y
         IN <<n>> \o Listed(S \ {n})

\* The filter of the fetched reply notifications: those not yet processed.
ReplyNotifications(fetched, processed) == Listed(fetched \ processed)

\* handleNotification returns early unless the answer is RESPOND.
ShouldReply(d) == d = "RESPOND"

\* The outcomes of handleNotification that record the notification as processed
\* without a reply.
ProcessedWithoutReply(d) == d \in {"IGNORE", "STOP"}

InitInteraction ==
    /\ processedNotifications = {}
    /\ roundPc = [r \in Rounds |-> "none"]
    /\ roundTodo = [r \in Rounds |-> <<>>]
    /\ replies = [n \in NotificationIds |-> 0]
    /\ interactionTimer = 0

\* The for loop of round r moves on to its next notification, or ends.
NextNotification(r) ==
    /\ roundTodo' = [roundTodo EXCEPT ![r] = Tail(@)]
    /\ roundPc' = [roundPc EXCEPT ![r] =
                      IF Tail(roundTodo[r]) = <<>> THEN "done" ELSE "handling"]

\* start, or the timer firing: round r begins by submitting getAllNotifications
\* and the timer is armed again.
HandleInteractionsLoop(r, m) ==
    /\ roundPc[r] = "none"
    /\ \A s \in Rounds : s < r => roundPc[s] # "none"
    /\ roundPc' = [roundPc EXCEPT ![r] = "fetching"]
    /\ interactionTimer' = RandomMinutes(m)
    /\ UNCHANGED <<processedNotifications, roundTodo, replies>>
    /\ UNCHANGED <<vars1, vars2, directCalls, varsV, varsT, varsP, varsA>>

\* getAllNotifications settles for round r: with the reply notifications
\* fetched, or with an error.
NotificationsArrive(r) ==
    /\ roundPc[r] = "fetching"
    /\ \/ \E fetched \in SUBSET NotificationIds :
            LET todo == ReplyNotifications(fetched, processedNotifications)
            IN /\ roundTodo' = [roundTodo EXCEPT ![r] = todo]
               /\ roundPc' = [roundPc EXCEPT ![r] =
                                 IF todo = <<>> THEN "done" ELSE "handling"]
       \/ /\ roundPc' = [roundPc EXCEPT ![r] = "done"]
          /\ UNCHANGED roundTodo
    /\ UNCHANGED <<processedNotifications, replies, interactionTimer>>
    /\ UNCHANGED <<vars1, vars2, directCalls, varsV, varsT, varsP, varsA>>

\* Round r handles its current notification up to the point where a reply is
\* submitted to the request queue, or where no reply is made.
HandleNotification(r, d) ==
    /\ roundPc[r] = "handling"
    /\ LET n == Head(roundTodo[r])
       IN IF d = "connectionThrows"
          THEN /\ roundPc' = [roundPc EXCEPT ![r] = "done"]
               /\ roundTodo' = [roundTodo EXCEPT ![r] = <<>>]
               /\ UNCHANGED <<processedNotifications, replies>>
          ELSE IF ShouldReply(d)
          THEN /\ replies' = [replies EXCEPT ![n] = @ + 1]
               /\ roundPc' = [roundPc EXCEPT ![r] = "replying"]
               /\ UNCHANGED <<processedNotifications, roundTodo>>
          ELSE /\ processedNotifications' =
                      IF ProcessedWithoutReply(d)
                      THEN processedNotifications \cup {n}
                      ELSE processedNotifications
               /\ NextNotification(r)
               /\ UNCHANGED replies
    /\ UNCHANGED interactionTimer
    /\ UNCHANGED <<vars1, vars2, directCalls, varsV, varsT, varsP, varsA>>

\* The reply of round r settles: when it and the bookkeeping after it succeed
\* the notification is recorded as processed, otherwise the error is logged.
ReplySettles(r, out) ==
    /\ roundPc[r] = "replying"
    /\ processedNotifications' =
           IF out = "ok"
           THEN processedNotifications \cup {Head(roundTodo[r])}
           ELSE processedNotifications
    /\ NextNotification(r)
    /\ UNCHANGED <<replies, interactionTimer>>
    /\ UNCHANGED <<vars1, vars2, directCalls, varsV, varsT, varsP, varsA>>

NextInteraction ==
    \/ \E r \in Rounds, m \in RandomSamples : HandleInteractionsLoop(r, m)
    \/ \E r \in Rounds : NotificationsArrive(r)
    \/ \E r \in Rounds, d \in Decisions : HandleNotification(r, d)
    \/ \E r \in Rounds, out \in {"ok", "throws"} : ReplySettles(r, out)

\* ------------------------------------------------------------------------
\* VideoService: processVideo pushes the url, calls processQueue, whose drain
\* loop awaits processVideoFromUrl for each queued url, and calls checkQueue,
\* which polls until the url has left the queue and then awaits
\* processVideoFromUrl itself.

Calls == 1..MaxCalls
Urls == 1..MaxUrls
\* The processVideoFromUrl invocation the drain loop makes for the url pushed by
\* call c, and the one the checkQueue of call c makes.
Invocations == {"queue", "check"} \X Calls

\* VideoService.maxRetries
maxRetries == 3

NotInvoked == [pc |-> "idle", retryCount |-> 0, tries |-> 0, failed |-> 0, result |-> "none"]
\* processVideoFromUrl(url, runtime) up to the first await of its first attempt.
Invoked == [pc |-> "attempt", retryCount |-> 0, tries |-> 1, failed |-> 0, result |-> "none"]

\* The guard of the recursive call in the catch of processVideoFromUrl.
ShouldRetry_Inclusive(retryCount) == retryCount <= maxRetries
ShouldRetry(retryCount) == retryCount < maxRetries

\* The catch of processVideoFromUrl: the recursive call runs up to its first
\* await, or the fallback Media is built and its cacheManager.set awaited.
AttemptFailed(rec) ==
    IF ShouldRetry(rec.retryCount)
    THEN [rec EXCEPT !.retryCount = @ + 1, !.tries = @ + 1, !.failed = @ + 1]
    ELSE [rec EXCEPT !.pc = "fallback", !.failed = @ + 1]

\* The outermost processVideoFromUrl call settles with res.
Returned(res) == [NotInvoked EXCEPT !.result = res]

\* this.queue.indexOf(url) !== -1
InVideoQueue(url, q, urls) == \E k \in 1..Len(q) : urls[q[k]] = url

\* The early return of VideoService.processQueue.
VideoProcessQueueReturns(p, q) == p \/ Len(q) = 0

\* What processVideo's promise is resolved with.
Resolution(res) == IF res = "rejected" THEN "errorMedia" ELSE res

InitVideo ==
    /\ videoQueue = <<>>
    /\ videoProcessing = FALSE
    /\ callUrl = [c \in Calls |-> 0]
    /\ callPc = [c \in Calls |-> "none"]
    /\ callResult = [c \in Calls |-> "none"]
    /\ inv = [v \in Invocations |-> NotInvoked]
    /\ videoCache = [u \in Urls |-> "none"]

\* processVideo(url, runtime), call c: push, processQueue up to its first
\* await, checkQueue up to its first await or timer.
ProcessVideo(c, url) ==
    /\ callPc[c] = "none"
    /\ \A b \in Calls : b < c => callPc[b] # "none"
    /\ LET urls == [callUrl EXCEPT ![c] = url]
           pushed == Append(videoQueue, c)
           enters == ~VideoProcessQueueReturns(videoProcessing, pushed)
           q == IF enters THEN Tail(pushed) ELSE pushed
           f == IF enters THEN [inv EXCEPT ![<<"queue", Head(pushed)>>] = Invoked]
                ELSE inv
           waits == InVideoQueue(url, q, urls)
       IN /\ callUrl' = urls
          /\ videoQueue' = q
          /\ videoProcessing' = (videoProcessing \/ enters)
          /\ inv' = IF waits THEN f ELSE [f EXCEPT ![<<"check", c>>] = Invoked]
          /\ callPc' = [callPc EXCEPT ![c] = IF waits THEN "polling" ELSE "processing"]
    /\ UNCHANGED <<callResult, videoCache>>
    /\ UNCHANGED <<vars1, vars2, directCalls, varsI, varsT, varsP, varsA>>

\* The 100 ms timer of checkQueue fires for call c.
CheckQueue(c) ==
    /\ callPc[c] = "polling"
    /\ IF InVideoQueue(callUrl[c], videoQueue, callUrl)
       THEN UNCHANGED <<inv, callPc>>
       ELSE /\ inv' = [inv EXCEPT ![<<"check", c>>] = Invoked]
            /\ callPc' = [callPc EXCEPT ![c] = "processing"]
    /\ UNCHANGED <<videoQueue, videoProcessing, callUrl, callResult, videoCache>>
    /\ UNCHANGED <<vars1, vars2, directCalls, varsI, varsT, varsP, varsA>>

\* Invocation v settles with res: the checkQueue that awaited it resolves the
\* promise of processVideo; the drain loop that awaited it drops the result
\* (the model keeps that of its latest invocation) and goes on with the next
\* url or ends.
Settled(v, res) ==
    LET f == [w \in Invocations |->
                IF w = v THEN Returned(res)
                ELSE IF w[1] = "queue" /\ v[1] = "queue" THEN NotInvoked
                ELSE inv[w]]
    IN IF v[1] = "check"
       THEN /\ inv' = f
            /\ callPc' = [callPc EXCEPT ![v[2]] = "resolved"]
            /\ callResult' = [callResult EXCEPT ![v[2]] = Resolution(res)]
            /\ UNCHANGED <<videoQueue, videoProcessing>>
       ELSE /\ IF Len(videoQueue) > 0
               THEN /\ videoQueue' = Tail(videoQueue)
                    /\ inv' = [f EXCEPT ![<<"queue", Head(videoQueue)>>] = Invoked]
                    /\ UNCHANGED videoProcessing
               ELSE /\ videoProcessing' = FALSE
                    /\ inv' = f
                    /\ UNCHANGED videoQueue
            /\ UNCHANGED <<callPc, callResult>>

\* The current attempt of invocation v ends: with the cached Media, with the
\* Media it built and cached, or with an error.
AttemptSettles(v, out) ==
    /\ inv[v].pc = "attempt"
    /\ LET url == callUrl[v[2]]
       IN \/ /\ out = "cached"
             /\ videoCache[url] # "none"
             /\ Settled(v, "cached")
             /\ UNCHANGED videoCache
          \/ /\ out = "processed"
             /\ videoCache' = [videoCache EXCEPT ![url] = "media"]
             /\ Settled(v, "media")
          \/ /\ out = "fails"
             /\ inv' = [inv EXCEPT ![v] = AttemptFailed(@)]
             /\ UNCHANGED <<videoQueue, videoProcessing, callPc, callResult, videoCache>>
    /\ UNCHANGED callUrl
    /\ UNCHANGED <<vars1, vars2, directCalls, varsI, varsT, varsP, varsA>>

\* The cacheManager.set of the fallback Media settles for invocation v.
FallbackStored(v, out) ==
    /\ inv[v].pc = "fallback"
    /\ IF out = "ok"
       THEN /\ videoCache' = [videoCache EXCEPT ![callUrl[v[2]]] = "fallback"]
            /\ Settled(v, "fallback")
       ELSE /\ Settled(v, "rejected")
            /\ UNCHANGED videoCache
    /\ UNCHANGED callUrl
    /\ UNCHANGED <<vars1, vars2, directCalls, varsI, varsT, varsP, varsA>>

NextVideo ==
    \/ \E c \in Calls, url \in Urls : ProcessVideo(c, url)
    \/ \E c \in Calls : CheckQueue(c)
    \/ \E v \in Invocations, out \in {"cached", "processed", "fails"} : AttemptSettles(v, out)
    \/ \E v \in Invocations, out \in {"ok", "throws"} : FallbackStored(v, out)

\* The processVideoFromUrl invocations in flight.
VideoInFlight == {v \in Invocations : inv[v].pc # "idle"}

\* ------------------------------------------------------------------------
\* AvalancheTradeClient of packages/client-avalanche/src/trade.ts: startTrading
\* calls tradingLoop, whose finally block schedules the next call.

\* config.TRADE_INTERVAL_MINUTES
TradeIntervalMinutes == {1, 5}

\* The variation of scheduleNextTrade, from Math.random() in ten-thousandths.
Variation(m) == ((m * 60000) \div 10000) - 30000

\* The guard at the head of tradingLoop.
TradingLoopReturns(trading) == trading

\* The finally block runs scheduleNextTrade however the iteration ended.
SchedulesNext_SuccessOnly(res) == res = "ok"
SchedulesNext(res) == TRUE

\* The finally block's assignment to isTrading.
IsTradingAfterFinally == FALSE

InitTrade ==
    /\ tradeInterval = 0
    /\ isTrading = FALSE
    /\ tradeStarted = FALSE
    /\ tradeInFlight = 0
    /\ tradeLogging = 0
    /\ tradeTimers = <<>>
    /\ tradeLog = <<>>

\* tradingLoop up to its first await: it returns when an iteration is in
\* progress, else it sets the flag and calls checkStateAndTrade.
TradingLoopEntry ==
    IF TradingLoopReturns(isTrading)
    THEN UNCHANGED <<isTrading, tradeInFlight>>
    ELSE /\ isTrading' = TRUE
         /\ tradeInFlight' = tradeInFlight + 1

\* The finally block of an iteration that ended with res.
Finally(res, m) ==
    /\ isTrading' = IsTradingAfterFinally
    /\ tradeTimers' = IF SchedulesNext(res)
                      THEN Append(tradeTimers, tradeInterval + Variation(m))
                      ELSE tradeTimers
    /\ tradeLog' = Append(tradeLog, res)

\* The manager constructs the client with config.TRADE_INTERVAL_MINUTES = n
\* and starts it: startTrading calls tradingLoop.
StartTrading(n) ==
    /\ ~tradeStarted
    /\ tradeStarted' = TRUE
    /\ tradeInterval' = n * 60 * 1000
    /\ TradingLoopEntry
    /\ UNCHANGED <<tradeLogging, tradeTimers, tradeLog>>
    /\ UNCHANGED <<vars1, vars2, directCalls, varsI, varsV, varsP, varsA>>

\* The k-th pending timer of scheduleNextTrade fires.
TradeTimerFires(k) ==
    /\ k \in 1..Len(tradeTimers)
    /\ Len(tradeLog) < MaxIterations
    /\ tradeTimers' = [j \in 1..(Len(tradeTimers) - 1) |->
                         IF j < k THEN tradeTimers[j] ELSE tradeTimers[j + 1]]
    /\ TradingLoopEntry
    /\ UNCHANGED <<tradeInterval, tradeStarted, tradeLogging, tradeLog>>
    /\ UNCHANGED <<vars1, vars2, directCalls, varsI, varsV, varsP, varsA>>

\* checkStateAndTrade settles: the finally block runs, or the catch block
\* awaits logTradeError first.
CheckStateAndTradeSettles(out, m) ==
    /\ tradeInFlight > 0
    /\ tradeInFlight' = tradeInFlight - 1
    /\ IF out = "ok"
       THEN /\ Finally("ok", m)
            /\ UNCHANGED tradeLogging
       ELSE /\ tradeLogging' = tradeLogging + 1
            /\ UNCHANGED <<isTrading, tradeTimers, tradeLog>>
    /\ UNCHANGED <<tradeInterval, tradeStarted>>
    /\ UNCHANGED <<vars1, vars2, directCalls, varsI, varsV, varsP, varsA>>

\* logTradeError settles: the finally block runs, and when logTradeError threw
\* the promise of tradingLoop is rejected.
LogTradeErrorSettles(out, m) ==
    /\ tradeLogging > 0
    /\ tradeLogging' = tradeLogging - 1
    /\ Finally(IF out = "ok" THEN "logged" ELSE "rejected", m)
    /\ UNCHANGED <<tradeInterval, tradeStarted, tradeInFlight>>
    /\ UNCHANGED <<vars1, vars2, directCalls, varsI, varsV, varsP, varsA>>

NextTrade ==
    \/ \E n \in TradeIntervalMinutes : StartTrading(n)
    \/ \E k \in 1..MaxIterations : TradeTimerFires(k)
    \/ \E out \in {"ok", "throws"}, m \in RandomSamples : CheckStateAndTradeSettles(out, m)
    \/ \E out \in {"ok", "throws"}, m \in RandomSamples : LogTradeErrorSettles(out, m)

\* ------------------------------------------------------------------------
\* ArenaPostClient.start of packages/client-arena/src/post.ts: the guard on
\* activeLoop, init, the optional first post, and generateNewPostLoop, which
\* sets a timer for its next run on both of its paths.

Starts == 1..MaxStarts

\* The guard at the head of start.
StartReturns(active) == active

\* What the catch block of start leaves in activeLoop.
ActiveLoopAfterCatch(active) == active

\* The defaults of POST_INTERVAL_MIN and POST_INTERVAL_MAX, in minutes.
minMinutes == 90
maxMinutes == 180

\* The delay of the next run, from Math.random() in ten-thousandths.
PostDelay(m) == (((m * (maxMinutes - minMinutes + 1)) \div 10000) + minMinutes) * 60 * 1000

\* The delay the catch block of generateNewPostLoop sets.
RetryDelay == 300000

\* The sequence q without its k-th element.
Without(q, k) == [j \in 1..(Len(q) - 1) |-> IF j < k THEN q[j] ELSE q[j + 1]]

InitPost ==
    /\ activeLoop = FALSE
    /\ profile = FALSE
    /\ startPc = [c \in Starts |-> "none"]
    /\ startArg = [c \in Starts |-> FALSE]
    /\ postReading = 0
    /\ postPosting = <<>>
    /\ postTimers = <<>>

\* start(postImmediately), call c, up to its first await: it returns when
\* activeLoop is set, else it sets activeLoop and awaits init.
PostStart(c, postImmediately) ==
    /\ startPc[c] = "none"
    /\ \A b \in Starts : b < c => startPc[b] # "none"
    /\ startArg' = [startArg EXCEPT ![c] = postImmediately]
    /\ IF StartReturns(activeLoop)
       THEN /\ startPc' = [startPc EXCEPT ![c] = "returned"]
            /\ UNCHANGED activeLoop
       ELSE /\ activeLoop' = TRUE
            /\ startPc' = [startPc EXCEPT ![c] = "init"]
    /\ UNCHANGED <<profile, postReading, postPosting, postTimers>>
    /\ UNCHANGED <<vars1, vars2, directCalls, varsI, varsV, varsT, varsA>>

\* generateNewPostLoop() at the end of start: the loop runs up to its first
\* await and start returns.
LoopStarted(c) ==
    /\ postReading' = postReading + 1
    /\ startPc' = [startPc EXCEPT ![c] = "returned"]
    /\ UNCHANGED activeLoop

\* The catch block of start: the error is logged and start returns.
StartFailed(c) ==
    /\ startPc' = [startPc EXCEPT ![c] = "returned"]
    /\ activeLoop' = ActiveLoopAfterCatch(activeLoop)
    /\ UNCHANGED postReading

\* init settles for call c; with the profile set it returns without calling
\* client.init, so it cannot fail.
InitSettles(c, out) ==
    /\ startPc[c] = "init"
    /\ profile => out = "ok"
    /\ IF out = "ok"
       THEN /\ profile' = TRUE
            /\ IF startArg[c]
               THEN /\ startPc' = [startPc EXCEPT ![c] = "firstPost"]
                    /\ UNCHANGED <<activeLoop, postReading>>
               ELSE LoopStarted(c)
       ELSE /\ StartFailed(c)
            /\ UNCHANGED profile
    /\ UNCHANGED <<startArg, postPosting, postTimers>>
    /\ UNCHANGED <<vars1, vars2, directCalls, varsI, varsV, varsT, varsA>>

\* The generateNewPost that start awaits settles for call c.
FirstPostSettles(c, out) ==
    /\ startPc[c] = "firstPost"
    /\ IF out = "ok" THEN LoopStarted(c) ELSE StartFailed(c)
    /\ UNCHANGED <<profile, startArg, postPosting, postTimers>>
    /\ UNCHANGED <<vars1, vars2, directCalls, varsI, varsV, varsT, varsA>>

\* A run of generateNewPostLoop gets the time of the last post, or an error:
\* it chooses its delay and, when a post is due, awaits generateNewPost, else
\* it sets the timer of the next run.
PostLoopReads(out, m, due) ==
    /\ postReading > 0
    /\ postReading' = postReading - 1
    /\ IF out = "throws"
       THEN /\ postTimers' = Append(postTimers, RetryDelay)
            /\ UNCHANGED postPosting
       ELSE IF due
       THEN /\ postPosting' = Append(postPosting, PostDelay(m))
            /\ UNCHANGED postTimers
       ELSE /\ postTimers' = Append(postTimers, PostDelay(m))
            /\ UNCHANGED postPosting
    /\ UNCHANGED <<activeLoop, profile, startPc, startArg>>
    /\ UNCHANGED <<vars1, vars2, directCalls, varsI, varsV, varsT, varsA>>

\* The generateNewPost that the k-th such run awaits settles: the run sets the
\* timer of the next run, with its delay or with the delay of the catch block.
PostSettles(k, out) ==
    /\ k \in 1..Len(postPosting)
    /\ postPosting' = Without(postPosting, k)
    /\ postTimers' = Append(postTimers, IF out = "ok" THEN postPosting[k] ELSE RetryDelay)
    /\ UNCHANGED <<activeLoop, profile, startPc, startArg, postReading>>
    /\ UNCHANGED <<vars1, vars2, directCalls, varsI, varsV, varsT, varsA>>

\* The k-th pending timer of generateNewPostLoop fires.
PostTimerFires(k) ==
    /\ k \in 1..Len(postTimers)
    /\ postTimers' = Without(postTimers, k)
    /\ postReading' = postReading + 1
    /\ UNCHANGED <<activeLoop, profile, startPc, startArg, postPosting>>
    /\ UNCHANGED <<vars1, vars2, directCalls, varsI, varsV, varsT, varsA>>

NextPost ==
    \/ \E c \in Starts, postImmediately \in BOOLEAN : PostStart(c, postImmediately)
    \/ \E c \in Starts, out \in {"ok", "throws"} : InitSettles(c, out)
    \/ \E c \in Starts, out \in {"ok", "throws"} : FirstPostSettles(c, out)
    \/ \E out \in {"ok", "throws"}, m \in RandomSamples, due \in BOOLEAN :
            PostLoopReads(out, m, due)
    \/ \E k \in Starts, out \in {"ok", "throws"} : PostSettles(k, out)
    \/ \E k \in Starts : PostTimerFires(k)

\* The post-generation loops running or scheduled.
PostLoops == postReading + Len(postPosting) + Len(postTimers)

\* A start call is between its first await and its return.
StartInProgress == \E c \in Starts : startPc[c] \in {"init", "firstPost"}

\* ------------------------------------------------------------------------
\* AvalancheTradeClient.prepareTradeAction and executeTrade: the decision's
\* amount is limited to its cap, and the prepared action is executed, or only
\* logged when config.PAPER_TRADE is set.  decision.amount is a number, counted
\* here in halves; on-chain amounts are bigints, counted here in units of
\* which a whole token has WeiPerToken.

\* The model's scale for the 10^18 of parseUnits(amount, 18).
WeiPerToken == 4

DecisionActions == {"BUY_SHARES", "STAKE_YAK", "WITHDRAW_AND_BUY", "WAIT"}
\* decision.amount in halves, from -1 to MaxAmount.
DecisionAmounts == (0 - 2)..(2 * MaxAmount)
\* balances.avax and balances.yrt: multiples of half a token.
Balances == {b * (WeiPerToken \div 2) : b \in 0..MaxBalance}
\* this.maxShares
ShareLimits == 0..MaxSharesLimit

\* BigInt(n) throws a RangeError when n is not an integer.
BigIntThrows(h) == h % 2 # 0
BigIntOf(h) == h \div 2

\* parseUnits(n.toString(), 18)
ParseUnits(h) == (h * WeiPerToken) \div 2

\* x > cap ? cap : x
Clamp_None(x, cap) == x
Clamp(x, cap) == IF x > cap THEN cap ELSE x

\* prepareTradeAction returned null.
Null == [type |-> "null", amount |-> 0]

\* prepareTradeAction(decision, balances)
PrepareTradeActionResult(action, h, avax, yrt, maxShares) ==
    CASE action = "BUY_SHARES" ->
            IF BigIntThrows(h) THEN Null
            ELSE [type |-> action, amount |-> Clamp(BigIntOf(h), maxShares)]
      [] action = "STAKE_YAK" ->
            [type |-> action, amount |-> Clamp(ParseUnits(h), avax)]
      [] action = "WITHDRAW_AND_BUY" ->
            [type |-> action, amount |-> Clamp(ParseUnits(h), yrt)]
      [] OTHER -> Null

\* The cap of an action type.
Cap(type, avax, yrt, maxShares) ==
    CASE type = "BUY_SHARES" -> maxShares
      [] type = "STAKE_YAK" -> avax
      [] type = "WITHDRAW_AND_BUY" -> yrt

\* The external calls executeTrade awaits for each action type, in order.
ExecSteps(type) ==
    CASE type = "BUY_SHARES" ->
            <<"readContract", "simulateContract", "sendTransaction", "getTxReceipt">>
      [] type = "STAKE_YAK" ->
            <<"swapExactNativeForToken", "getTokenBalance", "stakeInYieldYak">>
      [] type = "WITHDRAW_AND_BUY" ->
            <<"withdrawFromYieldYak", "getTokenBalance", "swapExactTokenForNative",
              "readContract", "simulateContract", "sendTransaction", "getTxReceipt">>

\* if (config.PAPER_TRADE) { ...; return true; }
PaperTradeReturns_Never(paper) == FALSE
PaperTradeReturns(paper) == paper

NotPrepared ==
    [called |-> FALSE, action |-> "WAIT", amount |-> 0, avax |-> 0, yrt |-> 0,
     maxShares |-> 0, paper |-> FALSE, result |-> Null]

InitTradeAction ==
    /\ prepared = NotPrepared
    /\ execPc = 0
    /\ execCalls = <<>>
    /\ execResult = "none"

\* A client constructed with config.MAX_SHARES = maxShares and
\* config.PAPER_TRADE = paper calls prepareTradeAction.
PrepareTradeAction(action, h, avax, yrt, maxShares, paper) ==
    /\ ~prepared.called
    /\ prepared' = [called |-> TRUE, action |-> action, amount |-> h, avax |-> avax,
                    yrt |-> yrt, maxShares |-> maxShares, paper |-> paper,
                    result |-> PrepareTradeActionResult(action, h, avax, yrt, maxShares)]
    /\ UNCHANGED <<execPc, execCalls, execResult>>
    /\ UNCHANGED <<vars1, vars2, directCalls, varsI, varsV, varsT, varsP>>

\* executeTrade is called with the prepared action: it returns true at once in
\* paper trading, else it makes its first external call.
ExecuteTrade ==
    /\ prepared.called
    /\ prepared.result # Null
    /\ execPc = 0
    /\ execResult = "none"
    /\ IF PaperTradeReturns(prepared.paper)
       THEN /\ execResult' = "true"
            /\ UNCHANGED <<execPc, execCalls>>
       ELSE /\ execPc' = 1
            /\ execCalls' = <<ExecSteps(prepared.result.type)[1]>>
            /\ UNCHANGED execResult
    /\ UNCHANGED prepared
    /\ UNCHANGED <<vars1, vars2, directCalls, varsI, varsV, varsT, varsP>>

\* The external call executeTrade awaits settles: the next call is made, or
\* executeTrade returns; a call that throws makes it return false, and the
\* last call decides between true and false.
ExecCallSettles(out) ==
    /\ execPc > 0
    /\ LET steps == ExecSteps(prepared.result.type)
       IN IF out = "ok" /\ execPc < Len(steps)
          THEN /\ execPc' = execPc + 1
               /\ execCalls' = Append(execCalls, steps[execPc + 1])
               /\ UNCHANGED execResult
          ELSE /\ out = "failure" => execPc = Len(steps)
               /\ execPc' = 0
               /\ execResult' = IF out = "ok" THEN "true" ELSE "false"
               /\ UNCHANGED execCalls
    /\ UNCHANGED prepared
    /\ UNCHANGED <<vars1, vars2, directCalls, varsI, varsV, varsT, varsP>>

NextTradeAction ==
    \/ \E action \in DecisionActions, h \in DecisionAmounts, avax \in Balances,
          yrt \in Balances, maxShares \in ShareLimits, paper \in BOOLEAN :
            PrepareTradeAction(action, h, avax, yrt, maxShares, paper)
    \/ ExecuteTrade
    \/ \E out \in {"ok", "throws", "failure"} : ExecCallSettles(out)

\* ------------------------------------------------------------------------
Init ==
    /\ queue = <<>>
    /\ processing = FALSE
    /\ loopPc = [l \in Ops |-> "none"]
    /\ loopReq = [l \in Ops |-> 0]
    /\ timer = [l \in Ops |-> 0]
    /\ promise = [i \in Ops |-> "unsubmitted"]
    /\ value = [i \in Ops |-> <<>>]
    /\ settleCalls = [i \in Ops |-> 0]
    /\ attempts = [i \in Ops |-> 0]
    /\ failures = [i \in Ops |-> 0]
    /\ failN = [i \in Ops |-> 0]
    /\ executing = {}
    /\ addPhase = [i \in Ops |-> "none"]
    /\ log = <<>>
    /\ backoffs = <<>>
    /\ queue2 = <<>>
    /\ processing2 = FALSE
    /\ loopPc2 = [l \in Ops |-> "none"]
    /\ loopReq2 = [l \in Ops |-> 0]
    /\ executing2 = {}
    /\ directCalls = 0
    /\ InitInteraction
    /\ InitVideo
    /\ InitTrade
    /\ InitPost
    /\ InitTradeAction

\* The head of the while loop of invocation l, with the queue q, the flag p and
\* the history lg at that point: either the queue is empty and the loop ends
\* (this.processing = false), or the head is shifted off and invoked, which
\* starts the operation, and the loop waits for it.
LoopHead(l, q, p, lg) ==
    IF LoopCondition(q)
    THEN /\ queue' = Shift(q)
         /\ processing' = p
         /\ loopReq' = [loopReq EXCEPT ![l] = Head(q)]
         /\ loopPc' = [loopPc EXCEPT ![l] = "awaitReq"]
         /\ attempts' = [attempts EXCEPT ![Head(q)] = @ + 1]
         /\ executing' = executing \cup {Head(q)}
         /\ log' = Append(lg, <<"start", Head(q), l>>)
    ELSE /\ queue' = q
         /\ processing' = ProcessingOnExit
         /\ loopReq' = [loopReq EXCEPT ![l] = 0]
         /\ loopPc' = [loopPc EXCEPT ![l] = "done"]
         /\ log' = lg
         /\ UNCHANGED <<attempts, executing>>

\* add(request), for the next operation i, whose behaviour is n: the closure
\* is pushed and processQueue is called, which returns at once or becomes the
\* drain loop and runs to its first await.
Add(i, n) ==
    /\ promise[i] = "unsubmitted"
    /\ \A j \in Ops : j < i => promise[j] # "unsubmitted"
    /\ promise' = [promise EXCEPT ![i] = "pending"]
    /\ failN' = [failN EXCEPT ![i] = n]
    /\ addPhase' = [addPhase EXCEPT ![i] = Phase]
    /\ LET q == Push(queue, i)
           lg == Append(log, <<"add", i, ActiveLoop>>)
       IN IF ProcessQueueReturns(processing, q)
          THEN /\ queue' = q
               /\ loopPc' = [loopPc EXCEPT ![i] = "returned"]
               /\ log' = lg
               /\ UNCHANGED <<processing, loopReq, attempts, executing>>
          ELSE LoopHead(i, q, ProcessingOnEntry, lg)
    /\ UNCHANGED <<timer, value, settleCalls, failures, backoffs, others>>

\* The operation that invocation l awaits settles: the closure resumes and
\* settles the caller's promise, then processQueue resumes: in its catch when
\* the closure failed (unshift, exponentialBackoff), else at randomDelay.
OpSettles(l) ==
    /\ loopPc[l] = "awaitReq"
    /\ attempts[loopReq[l]] <= MaxAttempts
    /\ LET r == loopReq[l]
           k == attempts[r]
           out == OpOutcome(failN[r], k)
           to == ClosureSettles(out)
           first == promise[r] = "pending"
       IN /\ executing' = executing \ {r}
          /\ failures' = [failures EXCEPT ![r] = IF out = "fail" THEN @ + 1 ELSE @]
          /\ settleCalls' = [settleCalls EXCEPT ![r] = IF to = "none" THEN @ ELSE @ + 1]
          /\ promise' = [promise EXCEPT ![r] = IF first /\ to # "none" THEN to ELSE @]
          /\ value' = [value EXCEPT ![r] = IF first /\ to = "resolved"
                                              THEN OpResult(r, k) ELSE @]
          /\ log' = log \o <<<<out, r, l>>>>
                        \o (IF first /\ to # "none" THEN <<<<to, r, l>>>> ELSE <<>>)
          /\ IF ClosureResult(out) = "rejected"
             THEN /\ queue' = Unshift(queue, r)
                  /\ loopPc' = [loopPc EXCEPT ![l] = "backoff"]
                  /\ timer' = [timer EXCEPT ![l] = ExponentialBackoff(Len(queue'))]
                  /\ backoffs' = Append(backoffs, <<r, Len(queue'), timer'[l]>>)
             ELSE /\ queue' = queue
                  /\ backoffs' = backoffs
                  /\ loopPc' = [loopPc EXCEPT ![l] = "pacing"]
                  /\ \E m \in RandomSamples :
                        timer' = [timer EXCEPT ![l] = PacingDelay(out, m)]
    /\ UNCHANGED <<processing, loopReq, attempts, failN, addPhase, others>>

\* The timer invocation l awaits fires: after the backoff the loop goes on to
\* randomDelay; after randomDelay it is at the head of the while loop again.
TimerFires(l) ==
    /\ loopPc[l] \in {"backoff", "pacing"}
    /\ IF loopPc[l] = "backoff"
       THEN /\ loopPc' = [loopPc EXCEPT ![l] = "pacing"]
            /\ \E m \in RandomSamples :
                  timer' = [timer EXCEPT ![l] = PacingDelay("fail", m)]
            /\ UNCHANGED <<queue, processing, loopReq, attempts, executing, log>>
       ELSE /\ timer' = [timer EXCEPT ![l] = 0]
            /\ LoopHead(l, queue, processing, log)
    /\ UNCHANGED <<promise, value, settleCalls, failures, failN, addPhase, backoffs, others>>

Next ==
    \/ \E i \in Ops, n \in Plans : Add(i, n)
    \/ \E l \in Ops : OpSettles(l)
    \/ \E l \in Ops : TimerFires(l)

Spec == Init /\ [][Next]_vars

\* Operations settle and timers fire.
FairSpec ==
    /\ Spec
    /\ \A l \in Ops : WF_vars(OpSettles(l))
    /\ \A l \in Ops : WF_vars(TimerFires(l))

\* ------------------------------------------------------------------------
\* A second ClientBase, whose requestQueue field is a RequestQueue of its own
\* (requestQueue: RequestQueue = new RequestQueue()), run by the same code.

\* Variant: the second instance's queue field is the first instance's array.
SetQueue2_Shared(q) == queue' = q /\ queue2' = queue2

\* An assignment to this.queue of the second instance.
SetQueue2(q) == queue2' = q /\ queue' = queue

\* The head of the while loop, second instance.
LoopHead2(l, q, p) ==
    IF LoopCondition(q)
    THEN /\ SetQueue2(Shift(q))
         /\ processing2' = p
         /\ loopReq2' = [loopReq2 EXCEPT ![l] = Head(q)]
         /\ loopPc2' = [loopPc2 EXCEPT ![l] = "awaitReq"]
         /\ executing2' = executing2 \cup {Head(q)}
    ELSE /\ SetQueue2(q)
         /\ processing2' = ProcessingOnExit
         /\ loopReq2' = [loopReq2 EXCEPT ![l] = 0]
         /\ loopPc2' = [loopPc2 EXCEPT ![l] = "done"]
         /\ executing2' = executing2

\* What the handlers of the second instance leave alone, this.queue of the
\* first apart.
FirstButQueue == <<processing, loopPc, loopReq, timer, promise, value, settleCalls,
                   attempts, failures, failN, executing, addPhase, log, backoffs>>

\* add(request) on the second instance.
Add2(i) ==
    /\ loopPc2[i] = "none"
    /\ \A j \in Ops : j < i => loopPc2[j] # "none"
    /\ LET q == Push(queue2, i)
       IN IF ProcessQueueReturns(processing2, q)
          THEN /\ SetQueue2(q)
               /\ loopPc2' = [loopPc2 EXCEPT ![i] = "returned"]
               /\ UNCHANGED <<processing2, loopReq2, executing2>>
          ELSE LoopHead2(i, q, ProcessingOnEntry)
    /\ UNCHANGED <<FirstButQueue, directCalls, outside>>

\* The operation a loop of the second instance awaits settles, either way.
OpSettles2(l) ==
    /\ loopPc2[l] = "awaitReq"
    /\ \E out \in {"ok", "fail"} :
        IF ClosureResult(out) = "rejected"
        THEN /\ SetQueue2(Unshift(queue2, loopReq2[l]))
             /\ loopPc2' = [loopPc2 EXCEPT ![l] = "backoff"]
        ELSE /\ SetQueue2(queue2)
             /\ loopPc2' = [loopPc2 EXCEPT ![l] = "pacing"]
    /\ executing2' = executing2 \ {loopReq2[l]}
    /\ UNCHANGED <<processing2, loopReq2, FirstButQueue, directCalls, outside>>

\* The timer a loop of the second instance awaits fires.
TimerFires2(l) ==
    /\ loopPc2[l] \in {"backoff", "pacing"}
    /\ IF loopPc2[l] = "backoff"
       THEN /\ loopPc2' = [loopPc2 EXCEPT ![l] = "pacing"]
            /\ SetQueue2(queue2)
            /\ UNCHANGED <<processing2, loopReq2, executing2>>
       ELSE LoopHead2(l, queue2, processing2)
    /\ UNCHANGED <<FirstButQueue, directCalls, outside>>

NextTwo ==
    \/ \E i \in 1..TwoOps, n \in Plans : Add(i, n)
    \/ \E l \in Ops : OpSettles(l)
    \/ \E l \in Ops : TimerFires(l)
    \/ \E i \in 1..TwoOps : Add2(i)
    \/ \E l \in Ops : OpSettles2(l)
    \/ \E l \in Ops : TimerFires2(l)

\* Two RequestQueue instances side by side.
SpecTwo == Init /\ [][NextTwo]_vars

\* ------------------------------------------------------------------------
\* The post client's generateNewPost awaits client.fetchHomeTimeline, which
\* calls arenaClient.getThreadFeed itself, not in an operation given to
\* requestQueue.add.  The operations of the queue are the Arena API calls of
\* the other call sites.

FetchHomeTimelineStarts ==
    /\ directCalls = 0
    /\ directCalls' = 1
    /\ UNCHANGED <<vars1, vars2, outside>>

FetchHomeTimelineSettles ==
    /\ directCalls = 1
    /\ directCalls' = 0
    /\ UNCHANGED <<vars1, vars2, outside>>

NextArena ==
    \/ Next
    \/ FetchHomeTimelineStarts
    \/ FetchHomeTimelineSettles

\* The clients of one ArenaManager around the shared ClientBase.
SpecArena == Init /\ [][NextArena]_vars

\* The interaction client of the ArenaManager.
SpecInteraction == Init /\ [][NextInteraction]_vars

\* The video service.
SpecVideo == Init /\ [][NextVideo]_vars

\* The trade client.
SpecTrade == Init /\ [][NextTrade]_vars

\* The post client's start calls.
SpecPost == Init /\ [][NextPost]_vars

\* One decision of the trade client prepared and executed.
SpecTradeAction == Init /\ [][NextTradeAction]_vars

\* Arena API calls in flight.
ArenaCallsInFlight == Cardinality(executing) + directCalls

\* ------------------------------------------------------------------------
\* Histories read off the log

Events(kind) == SelectSeq(log, LAMBDA e : e[1] = kind)
OpsOf(s) == [k \in 1..Len(s) |-> s[k][2]]
AddOrder == OpsOf(Events("add"))
StartOrder == OpsOf(Events("start"))
ResolveOrder == OpsOf(Events("resolved"))
IsPrefix(s, t) == Len(s) <= Len(t) /\ \A k \in 1..Len(s) : s[k] = t[k]
Succeeded(i) == \E k \in 1..Len(log) : log[k][1] = "ok" /\ log[k][2] = i
\* Operation i was added while processQueue invocation l was the drain loop.
AddedDuring(i, l) == \E k \in 1..Len(log) : log[k] = <<"add", i, l>>
StartedBy(i, l) == \E k \in 1..Len(log) : log[k] = <<"start", i, l>>

\* ------------------------------------------------------------------------
\* C1: at most one submitted operation is executing (started and not yet
\* settled) at any time.
C1_SingleFlight == Cardinality(executing) <= 1

\* An operation is executing while two more are pending behind it.
C1_Witness == Cardinality(executing) = 1 /\ Len(queue) >= 2

\* C6: when no attempt fails, the operations start, and their promises
\* resolve, in the order in which add was called, whatever the drain loop was
\* doing (idle, executing an operation, in a pacing delay) when add was called.
C6_FifoWithoutFailures ==
    (\A i \in Ops : failures[i] = 0) =>
        /\ IsPrefix(StartOrder, AddOrder)
        /\ IsPrefix(ResolveOrder, AddOrder)

\* Three operations, added while idle, while an operation executes and during
\* a pacing delay, have all resolved.
C6_Witness ==
    /\ \A i \in Ops : failures[i] = 0
    /\ addPhase[1] = "idle" /\ addPhase[2] = "awaitReq" /\ addPhase[3] = "pacing"
    /\ Len(ResolveOrder) >= 3

\* C9: at most one drain loop is active, and an add that arrives while
\* processing is true appends its item and returns from processQueue without
\* starting a second loop.
C9_OneDrainLoop ==
    /\ [](Cardinality(ActiveLoops) <= 1)
    /\ [][\A i \in Ops :
            (processing /\ promise[i] = "unsubmitted" /\ promise'[i] = "pending")
            => /\ queue' = Append(queue, i)
               /\ loopPc'[i] = "returned"
               /\ ActiveLoops' = ActiveLoops]_vars

\* One add returned while an operation was executing and another during a
\* pacing delay, and the loop they met is still the only one.
C9_Witness ==
    /\ \E i, j \in Ops : /\ loopPc[i] = "returned" /\ addPhase[i] = "awaitReq"
                         /\ loopPc[j] = "returned" /\ addPhase[j] = "pacing"
    /\ Cardinality(ActiveLoops) = 1

\* C10: provided every operation ahead of it succeeds, operations settle and
\* timers fire, an item appended while a drain loop is active is eventually
\* started by that same loop.
C10_AppendedIsStarted ==
    \A i \in Ops : \A l \in Ops :
        (AddedDuring(i, l) /\ \A j \in Ops : j < i => failN[j] = 0)
            ~> StartedBy(i, l)

\* An item appended during a pacing delay has been started by the loop that
\* was pacing.
C10_Witness ==
    \E i \in Ops : \E l \in Ops :
        AddedDuring(i, l) /\ StartedBy(i, l) /\ addPhase[i] = "pacing"


\* C2: the promise returned by add is never rejected; for an operation that
\* fails on every attempt it stays pending forever.
C2_NeverRejected ==
    \A i \in Submitted :
        /\ promise[i] # "rejected"
        /\ failN[i] = Always => promise[i] = "pending"

\* C3: a work item whose attempt failed is never dropped: until an attempt of
\* it succeeds it is executing or pending in the queue again.
C3_FailedItemKept ==
    \A i \in Submitted : ~Succeeded(i) => (i \in executing \/ InQueue(i))

\* C4: once the queue has drained, an operation that fails on its first N
\* attempts and succeeds on attempt N+1 has been invoked exactly N+1 times and
\* its promise is resolved with the value of attempt N+1.
C4_FailsNThenSucceeds ==
    Quiescent =>
        \A i \in Submitted :
            failN[i] # Always =>
                /\ attempts[i] = failN[i] + 1
                /\ promise[i] = "resolved"
                /\ value[i] = OpResult(i, failN[i] + 1)

\* Position in the log of the first event of this kind for operation i
\* (0: none), and of its second start.
FirstPos(kind, i) ==
    LET ks == {k \in 1..Len(log) : log[k][1] = kind /\ log[k][2] = i}
    IN IF ks = {} THEN 0 ELSE CHOOSE k \in ks : \A m \in ks : k <= m
RetryPos(i) ==
    LET ks == {k \in 1..Len(log) : log[k][1] = "start" /\ log[k][2] = i
                                   /\ k > FirstPos("start", i)}
    IN IF ks = {} THEN 0 ELSE CHOOSE k \in ks : \A m \in ks : k <= m

\* C5: if A is submitted before B and A's attempt fails while B is pending,
\* A's retry starts before B's first execution starts; and opA (succeeds), opB
\* (fails once, then succeeds), opC (succeeds), submitted in that order with no
\* other submission, resolve in the order A, B, C.
C5_RetryBeforeLater ==
    /\ \A a \in Ops : \A b \in Ops :
        (/\ a < b
         /\ FirstPos("fail", a) # 0
         /\ FirstPos("add", b) # 0
         /\ FirstPos("add", b) < FirstPos("fail", a)
         /\ FirstPos("start", b) # 0)
        => (RetryPos(a) # 0 /\ RetryPos(a) < FirstPos("start", b))
    /\ (/\ Quiescent
        /\ Submitted = {1, 2, 3}
        /\ failN[1] = 0 /\ failN[2] = 1 /\ failN[3] = 0)
       => ResolveOrder = <<1, 2, 3>>

\* C7: if a submitted operation fails on every attempt, no operation submitted
\* after it ever starts executing.
C7_HeadOfLineBlocking ==
    \A i \in Submitted : \A j \in Submitted :
        (failN[i] = Always /\ i < j) => attempts[j] = 0

\* C8: the caller's promise is settled at most once, and the settlement is at
\* the operation's first successful attempt, never at a failed attempt.
C8_SettledOnceAtFirstSuccess ==
    \A i \in Submitted :
        /\ settleCalls[i] <= 1
        /\ \A k \in 1..Len(log) :
              (log[k][2] = i /\ log[k][1] \in {"resolved", "rejected"})
              => /\ k > 1
                 /\ log[k - 1] = <<"ok", i, log[k][3]>>
                 /\ FirstPos("ok", i) = k - 1

\* The queue has drained and its drain loop has exited.
Drained == (\E l \in Ops : loopPc[l] = "done") /\ ActiveLoops = {} /\ queue = <<>>

\* C11: once the queue has drained and the drain loop has exited, processing
\* is false and the next add starts a fresh drain loop that executes its
\* operation in the same step.
C11_RestartAfterDrain ==
    /\ [](Drained => ~processing)
    /\ [][\A i \in Ops :
            (Drained /\ promise[i] = "unsubmitted" /\ promise'[i] = "pending")
            => /\ loopPc'[i] = "awaitReq"
               /\ loopReq'[i] = i
               /\ i \in executing'
               /\ attempts'[i] = 1
               /\ processing']_vars

\* An operation added after a loop had exited is executing in a loop of its own.
C11_Witness ==
    \E i \in Ops : /\ addPhase[i] = "idle"
                   /\ loopPc[i] = "awaitReq" /\ i \in executing
                   /\ \E l \in Ops : loopPc[l] = "done"

\* C12: after each successful execution the drain loop waits a pacing delay d,
\* 1500 <= d < 3500 ms, and no operation starts while a pacing delay is
\* pending: the next start is the step in which that timer fires.
C12_PacingDelay ==
    /\ [](\A l \in Ops : loopPc[l] = "pacing" => (1500 <= timer[l] /\ timer[l] < 3500))
    /\ [][\A l \in Ops :
            (/\ loopPc[l] = "awaitReq" /\ loopPc'[l] # "awaitReq"
             /\ failures'[loopReq[l]] = failures[loopReq[l]])
            => loopPc'[l] = "pacing"]_vars
    /\ [][\A l \in Ops :
            (loopPc[l] = "pacing" /\ attempts' # attempts)
            => (loopPc'[l] = "awaitReq" /\ timer[l] >= 1500)]_vars

\* A loop has started a second operation after its first one succeeded.
C12_Witness ==
    \E l \in Ops : \E i \in Ops :
        /\ i # l /\ StartedBy(l, l) /\ Succeeded(l) /\ StartedBy(i, l)
        /\ loopPc[l] = "awaitReq" /\ loopReq[l] = i

\* The attempt that invocation l awaits fails in this step.
AttemptFails(l) ==
    /\ loopPc[l] = "awaitReq"
    /\ failures'[loopReq[l]] > failures[loopReq[l]]

\* C13, as claimed: the pacing delay is applied after successful executions
\* only; after a failed attempt the drain loop is in the backoff delay and in
\* no pacing delay.
C13_PacingAfterSuccessOnly ==
    \A l \in ActiveLoops :
        (loopReq[l] \notin executing /\ attempts[loopReq[l]] = failures[loopReq[l]])
        => loopPc[l] = "backoff"

\* C13, amended: the pacing delay is applied after every attempt, failed or
\* successful: after a failed attempt the drain loop goes on waiting (never
\* starts or exits at once), and every start by a loop that has made an
\* attempt is the firing of a pacing timer of 1500 <= d < 3500 ms.
C13_PacingAfterEveryAttempt ==
    /\ [][\A l \in Ops : AttemptFails(l) => loopPc'[l] \in {"backoff", "pacing"}]_vars
    /\ [][\A l \in Ops :
            (loopPc[l] = "backoff" /\ loopPc'[l] # "backoff") => loopPc'[l] = "pacing"]_vars
    /\ [][\A l \in Ops :
            (l \in ActiveLoops /\ loopPc[l] # "awaitReq" /\ loopPc'[l] \notin {"backoff", "pacing"})
            => (loopPc[l] = "pacing" /\ 1500 <= timer[l] /\ timer[l] < 3500)]_vars

\* A loop whose first attempt failed has waited and started the next operation.
C13_Witness ==
    \E l \in Ops : \E i \in Ops :
        /\ i # l /\ StartedBy(l, l) /\ failures[l] >= 1
        /\ loopPc[l] = "awaitReq" /\ loopReq[l] = i

\* C14: after a failed attempt the failed item is back at the head of the
\* queue and the loop awaits a backoff delay of 2^L * 1000 ms, L the queue
\* length after the reinsertion (L >= 1).
C14_BackoffDelay ==
    [][\A l \in Ops :
        AttemptFails(l)
        => /\ loopPc'[l] = "backoff"
           /\ Len(queue') >= 1
           /\ Head(queue') = loopReq[l]
           /\ timer'[l] = (2 ^ Len(queue')) * 1000]_vars

\* C15: when the head item fails once and the queue length after its
\* reinsertion is 3, the loop waits at least 8000 ms and less than 16000 ms
\* before the next attempt.
C15_BackoffScenario ==
    [][\A l \in Ops :
        (AttemptFails(l) /\ Len(queue) = 2)
        => /\ Len(queue') = 3
           /\ timer'[l] >= 8000
           /\ timer'[l] < 16000]_vars

\* C16: while an operation is executing and does not settle, every add
\* returns a pending promise and grows the queue by exactly one entry, and no
\* other operation starts.
C16_StuckOperation ==
    /\ [][\A i \in Ops :
            (executing # {} /\ promise[i] = "unsubmitted" /\ promise'[i] # "unsubmitted")
            => /\ promise'[i] = "pending"
               /\ Len(queue') = Len(queue) + 1
               /\ queue'[Len(queue')] = i]_vars
    /\ [][(executing # {} /\ executing \subseteq executing') => attempts' = attempts]_vars

\* Two operations have been added behind an executing one and none has started.
C16_Witness ==
    /\ executing = {1}
    /\ queue = <<2, 3>>
    /\ attempts[2] = 0 /\ attempts[3] = 0
    /\ promise[2] = "pending" /\ promise[3] = "pending"

\* The state of a work item.
ItemState(i) ==
    IF promise[i] = "unsubmitted" THEN "None"
    ELSE IF i \in executing THEN "Executing"
    ELSE IF InQueue(i) THEN "Pending"
    ELSE IF promise[i] = "resolved" THEN "Resolved"
    ELSE "Dropped"

\* The transitions of a work item (an add on an idle queue starts the item in
\* the same step).
ItemTransitions ==
    {<<"None", "Pending">>, <<"None", "Executing">>, <<"Pending", "Executing">>,
     <<"Executing", "Resolved">>, <<"Executing", "Pending">>}

\* C19: a work item follows only Pending -> Executing, Executing -> Resolved
\* and Executing -> Pending; it reaches no terminal state other than Resolved,
\* and a Resolved item never becomes Pending or Executing again.
C19_ItemLifecycle ==
    [][\A i \in Ops :
        ItemState(i)' # ItemState(i) => <<ItemState(i), ItemState(i)'>> \in ItemTransitions]_vars

\* C20: each work item occurs at most once in the queue, and the executing
\* item is not in the queue.
C20_QueueHoldsPendingOnce ==
    /\ \A j, k \in 1..Len(queue) : queue[j] = queue[k] => j = k
    /\ \A i \in executing : ~InQueue(i)

\* An operation is executing, taken from the head of a queue that held it
\* and still holds another.
C20_Witness ==
    \E i \in Ops : /\ executing = {i}
                   /\ addPhase[i] # "idle"
                   /\ Len(queue) >= 1

\* C17: two RequestQueue instances are independent: a step of one instance
\* never changes the queue or the processing flag of the other, and both may
\* have an operation executing at the same time.
C17_IndependentInstances ==
    [][/\ vars1' # vars1 => UNCHANGED <<queue2, processing2>>
       /\ vars2' # vars2 => UNCHANGED <<queue, processing>>]_vars

\* Both instances have an operation executing and another pending.
C17_Witness ==
    /\ executing # {} /\ executing2 # {}
    /\ Len(queue) >= 1 /\ Len(queue2) >= 1

\* C18: every Arena API call of the post, chat and interaction clients is
\* made inside an operation of the shared queue, so no two Arena API calls
\* are in flight at the same time.
C18_ArenaCallsSerialized == ArenaCallsInFlight <= 1

\* C21: whenever the drain loop is suspended or absent, a non-empty queue
\* implies that processing is true and a drain loop is active: the emptiness
\* test and the clearing of the flag are one step, so no item is left in the
\* queue with no loop running.
C21_NonEmptyImpliesProcessing ==
    queue # <<>> => (processing /\ ActiveLoops # {})

\* Items wait in the queue while the loop is in a pacing delay.
C21_Witness ==
    \E l \in Ops : loopPc[l] = "pacing" /\ Len(queue) >= 2 /\ processing

\* C22: the queue's list changes only by an append at the tail (add), the
\* removal of the head (dequeue) and an insertion at the head (retry); while
\* the drain loop stays suspended where it is, the only change is an append,
\* which keeps the pending entries in their order.
C22_QueueMutations ==
    /\ [][\/ queue' = queue
          \/ \E i \in Ops : queue' = Append(queue, i)
          \/ (queue # <<>> /\ queue' = Tail(queue))
          \/ \E i \in Ops : queue' = <<i>> \o queue]_vars
    /\ [][\A l \in ActiveLoops :
            loopPc'[l] = loopPc[l]
            => (queue' = queue \/ \E i \in Ops : queue' = Append(queue, i))]_vars

\* Two items have been appended behind a third while the loop was suspended,
\* one during an execution and one during a pacing delay.
C22_Witness ==
    \E l \in Ops :
        /\ loopPc[l] = "pacing" /\ Len(queue) = 2
        /\ addPhase[queue[1]] = "awaitReq" /\ addPhase[queue[2]] = "pacing"

\* C23: every failed attempt is followed by a backoff delay, which depends on
\* the pending queue length only: two consecutive failed attempts of the same
\* item are followed by the same delay when nothing was submitted in between,
\* and by twice the delay when one item was.
C23_BackoffByQueueLength ==
    /\ Len(backoffs) = Len(Events("fail"))
    /\ \A k \in 1..(Len(backoffs) - 1) :
        backoffs[k][1] = backoffs[k + 1][1]
        => /\ backoffs[k + 1][2] = backoffs[k][2] => backoffs[k + 1][3] = backoffs[k][3]
           /\ backoffs[k + 1][2] = backoffs[k][2] + 1
                => backoffs[k + 1][3] = 2 * backoffs[k][3]

\* C24: the closure add enqueues never fails, so processQueue's failure
\* branch (reinsertion, backoff) is never entered and every submitted
\* operation is invoked exactly once: never twice, and once when the queue
\* has drained.
C24_RetryBranchUnreachable ==
    /\ \A l \in Ops : loopPc[l] # "backoff"
    /\ backoffs = <<>>
    /\ \A i \in Ops : attempts[i] <= 1
    /\ \A i \in Ops : InQueue(i) => attempts[i] = 0
    /\ Quiescent => \A i \in Submitted : attempts[i] = 1

\* An operation that fails on every attempt has failed once and the queue has
\* drained.
C24_Witness ==
    \E i \in Submitted : failN[i] = Always /\ failures[i] = 1 /\ Quiescent

\* C25: the drain loop stays active for the whole pacing delay, also with the
\* queue empty: an operation submitted in that window is queued and starts
\* only when the delay has elapsed, so every start by a loop that has made an
\* attempt follows a pacing delay.
C25_ActiveDuringPacing ==
    /\ [](\A l \in Ops : loopPc[l] = "pacing" => (processing /\ timer[l] >= 1500))
    /\ [][\A i \in Ops :
            (/\ \E l \in Ops : loopPc[l] = "pacing"
             /\ promise[i] = "unsubmitted" /\ promise'[i] = "pending")
            => /\ loopPc'[i] = "returned"
               /\ attempts' = attempts
               /\ InQueue(i)']_vars
    /\ [][\A l \in ActiveLoops :
            (loopPc'[l] = "awaitReq" /\ attempts' # attempts) => loopPc[l] = "pacing"]_vars

\* An operation submitted during a pacing delay with the queue empty is
\* waiting for the delay to elapse.
C25_Witness ==
    \E l \in Ops : \E i \in Ops :
        /\ loopPc[l] = "pacing" /\ queue = <<i>> /\ addPhase[i] = "pacing"
        /\ attempts[i] = 0

\* C26: an add made while the queue is idle (processing false, queue empty)
\* starts its operation in the same step, with no delay in front of it.
C26_IdleAddStartsAtOnce ==
    [][\A i \in Ops :
        (/\ ~processing /\ queue = <<>>
         /\ promise[i] = "unsubmitted" /\ promise'[i] = "pending")
        => /\ i \in executing'
           /\ attempts'[i] = 1
           /\ loopPc'[i] = "awaitReq" /\ loopReq'[i] = i
           /\ timer'[i] = 0
           /\ queue' = <<>>]_vars

\* The first add of a run has started its operation.
C26_Witness == log = <<<<"add", 1, 0>>, <<"start", 1, 1>>>> /\ executing = {1}
\* ------------------------------------------------------------------------
\* C27: over all polling rounds of the interaction client, overlapping ones
\* included, a reply is submitted at most once for every notification id.
C27_ReplyAtMostOnce == \A n \in NotificationIds : replies[n] <= 1

\* C28: at most one processVideoFromUrl invocation is in flight at a time, and
\* so no two invocations process the same url at the same time.
C28_OneVideoInFlight ==
    /\ Cardinality(VideoInFlight) <= 1
    /\ \A v, w \in VideoInFlight : callUrl[v[2]] = callUrl[w[2]] => v = w

\* C29 as stated: processVideoFromUrl makes at most maxRetries + 1 = 4
\* attempts, gives up only after the fourth attempt failed, and then returns
\* the 'Processing Failed' fallback Media without a further attempt.
C29_FallbackAfterFourAttempts ==
    /\ [](\A v \in Invocations : inv[v].tries <= maxRetries + 1)
    /\ [][\A v \in Invocations :
            /\ (inv[v].pc = "attempt" /\ inv'[v].pc = "fallback")
               => (inv[v].tries = 4 /\ inv'[v].failed = 4)
            /\ inv[v].pc = "fallback"
               => (inv'[v].pc = "idle" => inv'[v].result = "fallback")]_vars

\* C29 amended: processVideoFromUrl makes at most maxRetries + 1 = 4 attempts;
\* it gives up only after the fourth attempt failed, then stores the fallback
\* Media without a further attempt, and returns it when that cacheManager.set
\* succeeds and is rejected with the error of cacheManager.set otherwise.
C29_StopsAfterFourAttempts ==
    /\ [](\A v \in Invocations :
            /\ inv[v].tries <= maxRetries + 1
            /\ inv[v].pc = "fallback" => (inv[v].tries = 4 /\ inv[v].failed = 4)
            /\ inv[v].pc = "attempt" => inv[v].failed = inv[v].tries - 1)
    /\ [][\A v \in Invocations :
            /\ (inv[v].pc = "attempt" /\ inv'[v].pc = "fallback")
               => (inv[v].tries = 4 /\ inv'[v].failed = 4)
            /\ (inv[v].pc = "attempt" /\ inv'[v].pc = "idle")
               => inv'[v].result \in {"media", "cached"}
            /\ inv[v].pc = "fallback"
               => /\ inv'[v].pc \in {"fallback", "idle"}
                  /\ inv'[v].pc = "fallback" => inv'[v] = inv[v]
                  /\ inv'[v].pc = "idle"
                     => \/ /\ inv'[v].result = "fallback"
                           /\ videoCache'[callUrl[v[2]]] = "fallback"
                        \/ /\ inv'[v].result = "rejected"
                           /\ videoCache' = videoCache]_vars

\* The four attempts of an invocation all failed and it has returned the
\* fallback Media, which is cached.
C29_Witness ==
    \E v \in Invocations :
        /\ inv[v].pc = "idle"
        /\ inv[v].result = "fallback"
        /\ videoCache[callUrl[v[2]]] = "fallback"
        /\ v[1] = "check" /\ callResult[v[2]] = "fallback"

\* C30: at most one checkStateAndTrade is in flight; after every iteration that
\* ran, however it ended, isTrading is false and exactly one timer is pending;
\* at most one timer is ever pending; and once started there is always either
\* an iteration in progress or a timer pending.
C30_TradingLoop ==
    /\ [](tradeInFlight <= 1)
    /\ [](Len(tradeTimers) <= 1)
    /\ [](tradeStarted => tradeInFlight + tradeLogging + Len(tradeTimers) = 1)
    /\ [](isTrading <=> tradeInFlight + tradeLogging = 1)
    /\ [][Len(tradeLog') > Len(tradeLog)
          => (~isTrading' /\ Len(tradeTimers') = 1 /\ tradeInFlight' = 0)]_vars

\* An iteration that threw, one whose error could not be logged and one that
\* succeeded have run, and the next one is scheduled.
C30_Witness ==
    /\ tradeLog = <<"logged", "rejected", "ok">>
    /\ ~isTrading
    /\ Len(tradeTimers) = 1
    /\ tradeInFlight = 0
\* ------------------------------------------------------------------------
\* C31: over any sequence of start calls at most one post-generation loop is
\* running or scheduled, and whenever activeLoop is true and no start call is
\* in progress, a post-generation loop is running or scheduled, also when init
\* failed inside start.
C31_ActiveLoopMeansLoop ==
    /\ PostLoops <= 1
    /\ (activeLoop /\ ~StartInProgress) => PostLoops = 1
\* C32: prepareTradeAction never returns an amount above its cap: at most
\* maxShares for BUY_SHARES, the AVAX balance for STAKE_YAK and the YRT balance
\* for WITHDRAW_AND_BUY, whatever the decision's amount.
C32_AmountWithinCap ==
    (prepared.called /\ prepared.result # Null)
    => /\ prepared.result.type = prepared.action
       /\ prepared.result.amount
              <= Cap(prepared.action, prepared.avax, prepared.yrt, prepared.maxShares)

\* A stake of more than the AVAX balance was reduced to the balance.
C32_Witness ==
    /\ prepared.called
    /\ prepared.action = "STAKE_YAK"
    /\ prepared.amount = 2 * MaxAmount
    /\ prepared.avax = WeiPerToken \div 2
    /\ prepared.result = [type |-> "STAKE_YAK", amount |-> WeiPerToken \div 2]

\* C33: with config.PAPER_TRADE set, executeTrade returns true for every action
\* type and makes no external call: it reads no contract, simulates no call and
\* sends no transaction.
C33_PaperTradeMakesNoCall ==
    /\ [](prepared.paper
           => (execCalls = <<>> /\ execPc = 0 /\ execResult \in {"none", "true"}))
    /\ [][(prepared.paper /\ prepared.result # Null /\ execResult = "none"
           /\ prepared' = prepared /\ <<execPc, execCalls, execResult>>' # <<execPc, execCalls, execResult>>)
          => (execResult' = "true" /\ execCalls' = <<>> /\ execPc' = 0)]_vars

\* A paper trade of a withdrawal has returned true without any call.
C33_Witness ==
    /\ prepared.called
    /\ prepared.paper
    /\ prepared.result.type = "WITHDRAW_AND_BUY"
    /\ execResult = "true"
    /\ execCalls = <<>>

====
